---- MODULE Spec2Model ----
(***************************************************************************)
(* A model of crawler_server/app.py: the batch ingestion handler           *)
(* (create_batch), the process-wide last_batch slot, and the query         *)
(* handlers over the blob store.                                           *)
(*                                                                         *)
(* Python strings that the code slices, pads, matches or sorts are         *)
(* sequences of one-character strings.  Python's None is the record None.  *)
(***************************************************************************)
EXTENDS Integers, Sequences, FiniteSets, TLC

(***************************************************************************)
(* Program constants (app.py lines 19-25).                                 *)
(***************************************************************************)
MAX_BATCH_SIZE == 100
USER_ID_LENGTH == 36
PUBLIC_USER_ID_LENGTH == 64
VERSION == <<"v", "1">>
FILE_NAME_SUFFIX == <<".", "j", "s", "o", "n", ".", "g", "z">>
\* f'https://f004.backblazeb2.com/file/{BUCKET_NAME}/': the host part and the
\* bucket name are single tokens, nothing in the code looks inside them.
PUBLIC_URL_PREFIX == <<"https://f004.backblazeb2.com/file/", "BUCKET_NAME", "/">>

None == [none |-> TRUE]

(***************************************************************************)
(* Bounds of the model.                                                    *)
(***************************************************************************)
\* create_batch requests that pass validation, over the whole run
MaxSubmits == 2
\* create_batch requests running at the same time (worker threads)
MaxInFlight == 2

(***************************************************************************)
(* Characters and strings.                                                 *)
(***************************************************************************)
Digits == <<"0", "1", "2", "3", "4", "5", "6", "7", "8", "9">>
HexDigits == Digits \o <<"a", "b", "c", "d", "e", "f">>
\* The characters the model uses, in code point order (what sorted() compares).
CharOrder ==
  <<"-", ".", "/">> \o Digits \o <<"_">> \o
  <<"a", "b", "c", "d", "e", "f", "g", "j", "n", "o", "s", "v", "x", "z">>

Range(s) == { s[i] : i \in DOMAIN s }

IsDigit(c) == c \in Range(Digits)

CharCode == [ c \in Range(CharOrder) |-> CHOOSE i \in DOMAIN CharOrder : CharOrder[i] = c ]

Ord(c) == CharCode[c]

\* str.startswith / str.endswith
StartsWith(s, p) == Len(p) <= Len(s) /\ SubSeq(s, 1, Len(p)) = p
EndsWith(s, p) == Len(p) <= Len(s) /\ SubSeq(s, Len(s) - Len(p) + 1, Len(s)) = p

\* Python's < on str from position i on: the first differing character
\* decides, a proper prefix is smaller.
RECURSIVE StrLessFrom(_, _, _)
StrLessFrom(a, b, i) ==
  IF i > Len(b) THEN FALSE
  ELSE IF i > Len(a) THEN TRUE
  ELSE IF a[i] = b[i] THEN StrLessFrom(a, b, i + 1)
  ELSE Ord(a[i]) < Ord(b[i])

StrLess(a, b) == StrLessFrom(a, b, 1)

\* sorted(xs) for a sequence of strings (insertion into a sorted prefix)
RECURSIVE Insert(_, _)
Insert(x, s) ==
  IF s = <<>> THEN <<x>>
  ELSE IF StrLess(Head(s), x) THEN <<Head(s)>> \o Insert(x, Tail(s))
  ELSE <<x>> \o s

RECURSIVE Sorted(_)
Sorted(xs) == IF xs = <<>> THEN <<>> ELSE Insert(Head(xs), Sorted(Tail(xs)))

\* the decimal digits of a natural number: str(n)
RECURSIVE Str(_)
Str(n) == IF n < 10 THEN <<Digits[n + 1]>> ELSE Str(n \div 10) \o <<Digits[(n % 10) + 1]>>

\* s.zfill(width): zeros on the left up to width, never a cut
RECURSIVE ZFill(_, _)
ZFill(s, width) == IF Len(s) >= width THEN s ELSE ZFill(<<"0">> \o s, width)

\* the index of the last sep in s at or before i, 0 when there is none
RECURSIVE LastIndexFrom(_, _, _)
LastIndexFrom(s, sep, i) ==
  IF i = 0 THEN 0
  ELSE IF s[i] = sep THEN i
  ELSE LastIndexFrom(s, sep, i - 1)

\* str.rsplit(sep, 1) splits at this index
LastIndexOf(s, sep) == LastIndexFrom(s, sep, Len(s))

\* the index of the first sep in s at or after from, 0 when there is none
RECURSIVE FirstIndexOf(_, _, _)
FirstIndexOf(s, sep, from) ==
  IF from > Len(s) THEN 0
  ELSE IF s[from] = sep THEN from
  ELSE FirstIndexOf(s, sep, from + 1)

\* s.strip('/')
RECURSIVE StripSlashes(_)
StripSlashes(s) ==
  IF s = <<>> THEN s
  ELSE IF Head(s) = "/" THEN StripSlashes(Tail(s))
  ELSE IF s[Len(s)] = "/" THEN StripSlashes(SubSeq(s, 1, Len(s) - 1))
  ELSE s

(***************************************************************************)
(* Time.  datetime.now(timezone.utc) is a record of calendar fields; the   *)
(* microsecond field is left out (it only reaches the float epoch_time,    *)
(* which the int field HashedBatch.timestamp truncates).                   *)
(***************************************************************************)
Instant(y, mo, d, h, mi, s) ==
  [year |-> y, month |-> mo, day |-> d, hour |-> h, minute |-> mi, second |-> s]

\* The instants the clock passes through, in order.
Timeline ==
  << Instant(2024, 1, 1, 0, 0, 9),
     Instant(2024, 1, 1, 23, 59, 59) >>

\* days from 1970-01-01 to the civil date y-m-d (proleptic Gregorian)
DaysFromCivil(y, m, d) ==
  LET yy  == IF m <= 2 THEN y - 1 ELSE y
      era == yy \div 400
      yoe == yy - era * 400
      mp  == IF m > 2 THEN m - 3 ELSE m + 9
      doy == (153 * mp + 2) \div 5 + d - 1
      doe == yoe * 365 + yoe \div 4 - yoe \div 100 + doy
  IN  era * 146097 + doe - 719468

\* (now - datetime(now.year, now.month, now.day, tzinfo=utc)).seconds
SecondsSinceMidnight(now) == now.hour * 3600 + now.minute * 60 + now.second

\* (now - datetime(1970, 1, 1, tzinfo=utc)).total_seconds(), as the int field keeps it
EpochTime(now) ==
  DaysFromCivil(now.year, now.month, now.day) * 86400 + SecondsSinceMidnight(now)

\* str(now.date()): YYYY-MM-DD
DateStr(now) ==
  ZFill(Str(now.year), 4) \o <<"-">> \o ZFill(Str(now.month), 2) \o <<"-">>
    \o ZFill(Str(now.day), 2)

\* PaddedSeconds with the padding forgotten
PaddedSeconds_NoPad(seconds) == Str(seconds)

\* str(seconds).zfill(5)
PaddedSeconds(seconds) == ZFill(Str(seconds), 5)

(***************************************************************************)
(* hashlib.sha3_256(user_id.encode('utf8')).hexdigest(): a deterministic   *)
(* 64 hex digit digest of the whole string.  SHA3 itself is abstracted by  *)
(* a mixing function of the characters and the length; it is injective on  *)
(* the identifiers of the model, as SHA3-256 is in practice.               *)
(***************************************************************************)
Sha3_256Hex(s) ==
  [ i \in 1..64 |->
      HexDigits[ ((Ord(s[1 + (i % Len(s))]) * (i + 3) + Len(s) + i * i) % 16) + 1 ] ]

(***************************************************************************)
(* The object key of a batch (create_batch, line 89).                      *)
(***************************************************************************)
FileName(now, user_id_hash, uid) ==
  <<"1", "/">> \o VERSION \o <<"/">> \o DateStr(now) \o <<"/", "1", "/">>
    \o user_id_hash \o <<"/">>
    \o PaddedSeconds(SecondsSinceMidnight(now)) \o <<"_", "_">> \o uid
    \o <<".", "j", "s", "o", "n", ".", "g", "z">>

(***************************************************************************)
(* Serialisation.  hashed_batch.json() is the text of a JSON object: the   *)
(* ordered list of its members; json.loads gives back a dict.  gzip wraps  *)
(* the bytes, and gzip.decompress fails on anything that is not wrapped.   *)
(***************************************************************************)
ItemFields == <<"timestamp", "source", "url", "title", "extract", "links">>

ItemJson(item) == [ i \in DOMAIN ItemFields |-> <<ItemFields[i], item[ItemFields[i]]>> ]

HashedBatchJson(hb) ==
  << <<"user_id_hash", hb.user_id_hash>>,
     <<"timestamp", hb.timestamp>>,
     <<"items", [ i \in DOMAIN hb.items |-> ItemJson(hb.items[i]) ]>> >>

Utf8Encode(text) == [utf8 |-> text]

GzipCompress(bytes) == [gzip |-> bytes]

IsGzip(bytes) == DOMAIN bytes = {"gzip"}

GzipDecompress(bytes) == bytes.gzip

\* the dict of a JSON object given as its ordered members
ObjectOf(members) ==
  [ k \in { members[i][1] : i \in DOMAIN members } |->
      LET i == CHOOSE j \in DOMAIN members :
                 members[j][1] = k /\ \A l \in (j + 1)..Len(members) : members[l][1] # k
      IN  members[i][2] ]

\* json.loads of the bytes of a stored HashedBatch
JsonLoads(bytes) ==
  LET top == ObjectOf(bytes.utf8)
  IN  [ k \in DOMAIN top |->
          IF k = "items"
          THEN [ i \in DOMAIN top[k] |-> ObjectOf(top[k][i]) ]
          ELSE top[k] ]

(***************************************************************************)
(* The blob store: a function from object keys to bytes, and the calls the *)
(* code makes on it through boto3 and requests.                            *)
(***************************************************************************)
RECURSIVE SetToSeq(_)
SetToSeq(S) ==
  IF S = {} THEN <<>>
  ELSE LET x == CHOOSE y \in S : TRUE IN <<x>> \o SetToSeq(S \ {x})

\* bucket.put(Body=data) on the object `name`: creates or overwrites it
BucketPut(st, name, data) ==
  [ k \in DOMAIN st \cup {name} |-> IF k = name THEN data ELSE st[k] ]

\* bucket.objects.filter(Prefix=prefix): the keys that start with prefix, in
\* key order; no key gives an empty iteration
ObjectsFilter(st, prefix) ==
  Sorted(SetToSeq({ k \in DOMAIN st : StartsWith(k, prefix) }))

\* client.list_objects(Bucket, Prefix, Delimiter): the keys under the prefix
\* are rolled up to the first delimiter after it.  The parsed response holds
\* the members 'Contents' and 'CommonPrefixes' only when the service's answer
\* carries at least one such element.
ListObjects(st, prefix, delimiter) ==
  LET matching == { k \in DOMAIN st : StartsWith(k, prefix) }
      cut(k)   == FirstIndexOf(k, delimiter, Len(prefix) + 1)
      contents == { k \in matching : cut(k) = 0 }
      common   == { SubSeq(k, 1, cut(k)) : k \in matching \ contents }
      members  == (IF contents = {} THEN {} ELSE {"Contents"})
                    \cup (IF common = {} THEN {} ELSE {"CommonPrefixes"})
  IN  [ m \in members |->
          IF m = "Contents"
          THEN LET ks == Sorted(SetToSeq(contents))
               IN  [ i \in DOMAIN ks |-> [Key |-> ks[i]] ]
          ELSE LET ps == Sorted(SetToSeq(common))
               IN  [ i \in DOMAIN ps |-> [Prefix |-> ps[i]] ] ]

\* the body the public file server answers for a key that does not exist
NotFoundBody == [not_found |-> TRUE]

\* requests.get(url).content
HttpGetContent(st, url) ==
  LET path == SubSeq(url, Len(PUBLIC_URL_PREFIX) + 1, Len(url))
  IN  IF StartsWith(url, PUBLIC_URL_PREFIX) /\ path \in DOMAIN st
      THEN st[path]
      ELSE NotFoundBody

(***************************************************************************)
(* Responses.  status is the HTTP status; body is the returned value, or   *)
(* the detail of the error; calls is the number of requests the handler    *)
(* made to the blob store (put, list or public URL fetch).                 *)
(***************************************************************************)
Response(op, status, body, calls) ==
  [op |-> op, status |-> status, body |-> body, calls |-> calls]

(***************************************************************************)
(* The query handlers.                                                     *)
(***************************************************************************)
\* DATE_REGEX.match(date_str): the pattern \d{4}-\d{2}-\d{2} at the start of
\* the string (re.match anchors the start only)
DateRegexMatch(s) ==
  /\ Len(s) >= 10
  /\ \A i \in {1, 2, 3, 4, 6, 7, 9, 10} : IsDigit(s[i])
  /\ s[5] = "-"
  /\ s[8] = "-"

\* check_date_str: TRUE when no HTTPException is raised
CheckDateStr(date_str) == DateRegexMatch(date_str)

\* check_public_user_id: TRUE when no HTTPException is raised
CheckPublicUserId(public_user_id) == Len(public_user_id) = PUBLIC_USER_ID_LENGTH

\* get_batch_id_from_file_name, where the assert holds
GetBatchIdFromFileName(file_name) ==
  SubSeq(file_name, 1, Len(file_name) - Len(FILE_NAME_SUFFIX))

\* item.key.rsplit('/', 1)[1]
KeyFileName(key) == SubSeq(key, LastIndexOf(key, "/") + 1, Len(key))

GetBatchesForPrefix(op, st, prefix) ==
  LET items      == ObjectsFilter(st, prefix)
      file_names == Sorted([ i \in DOMAIN items |-> KeyFileName(items[i]) ])
  IN  IF \E i \in DOMAIN items : LastIndexOf(items[i], "/") = 0
      THEN Response(op, 500, "IndexError", 1)
      ELSE IF \E i \in DOMAIN file_names : ~EndsWith(file_names[i], FILE_NAME_SUFFIX)
      THEN Response(op, 500, "AssertionError", 1)
      ELSE Response(op, 200,
             [batch_ids |-> [ i \in DOMAIN file_names |->
                                GetBatchIdFromFileName(file_names[i]) ]], 1)

\* GetBatchesForDateAndUser that lists the date's folder, whoever the user is
GetBatchesForDateAndUser_AnyUser(st, date_str, public_user_id) ==
  LET op == "get_batches_for_date_and_user" IN
  IF ~CheckDateStr(date_str)
  THEN Response(op, 400, "Incorrect date format, should be YYYY-MM-DD", 0)
  ELSE IF ~CheckPublicUserId(public_user_id)
  THEN Response(op, 400, "Incorrect public user ID length", 0)
  ELSE GetBatchesForPrefix(op, st,
         <<"1", "/">> \o VERSION \o <<"/">> \o date_str \o <<"/", "1", "/">>)

GetBatchesForDateAndUser(st, date_str, public_user_id) ==
  LET op == "get_batches_for_date_and_user" IN
  IF ~CheckDateStr(date_str)
  THEN Response(op, 400, "Incorrect date format, should be YYYY-MM-DD", 0)
  ELSE IF ~CheckPublicUserId(public_user_id)
  THEN Response(op, 400, "Incorrect public user ID length", 0)
  ELSE GetBatchesForPrefix(op, st,
         <<"1", "/">> \o VERSION \o <<"/">> \o date_str \o <<"/", "1", "/">>
           \o public_user_id \o <<"/">>)

GetBatchFromId(st, date_str, public_user_id, batch_id) ==
  LET op == "get_batch_from_id" IN
  IF ~CheckDateStr(date_str)
  THEN Response(op, 400, "Incorrect date format, should be YYYY-MM-DD", 0)
  ELSE IF ~CheckPublicUserId(public_user_id)
  THEN Response(op, 400, "Incorrect public user ID length", 0)
  ELSE LET url == PUBLIC_URL_PREFIX \o <<"1", "/">> \o VERSION \o <<"/">>
                    \o date_str \o <<"/", "1", "/">> \o public_user_id \o <<"/">>
                    \o batch_id \o FILE_NAME_SUFFIX
           content == HttpGetContent(st, url)
       IN  IF ~IsGzip(content)
           THEN Response(op, 500, "BadGzipFile", 1)
           ELSE Response(op, 200, JsonLoads(GzipDecompress(content)), 1)

GetSubfolders(op, st, prefix) ==
  LET items == ListObjects(st, prefix, "/")
  IN  IF "CommonPrefixes" \notin DOMAIN items
      THEN Response(op, 500, "KeyError", 1)
      ELSE LET cps == items["CommonPrefixes"]
           IN  Response(op, 200,
                 [ i \in DOMAIN cps |->
                     StripSlashes(SubSeq(cps[i].Prefix, Len(prefix) + 1,
                                         Len(cps[i].Prefix))) ], 1)

GetUserIdHashesForDate(st, date_str) ==
  LET op == "get_user_id_hashes_for_date" IN
  IF ~CheckDateStr(date_str)
  THEN Response(op, 400, "Incorrect date format, should be YYYY-MM-DD", 0)
  ELSE GetSubfolders(op, st,
         <<"1", "/">> \o VERSION \o <<"/">> \o date_str \o <<"/", "1", "/">>)

\* GetLatestBatch with the test of the slot inverted
GetLatestBatch_Inverted(lb) ==
  Response("get_latest_batch", 200, IF lb # None THEN <<>> ELSE <<lb>>, 0)

GetLatestBatch(lb) ==
  Response("get_latest_batch", 200, IF lb = None THEN <<>> ELSE <<lb>>, 0)

(***************************************************************************)
(* create_batch, in the pieces between which other requests can run: the   *)
(* checks and the local computation, the store write, the slot update.     *)
(***************************************************************************)
\* CreateBatchValidate with the size limit off by one
CreateBatchValidate_SizeOffByOne(batch) ==
  IF Len(batch.items) > MAX_BATCH_SIZE + 1
  THEN Response("create_batch", 400, "Batch size too large", 0)
  ELSE IF Len(batch.user_id) # USER_ID_LENGTH
  THEN Response("create_batch", 400, "User ID length is incorrect", 0)
  ELSE None

\* CreateBatchValidate that only rejects identifiers that are too long
CreateBatchValidate_OnlyTooLong(batch) ==
  IF Len(batch.items) > MAX_BATCH_SIZE
  THEN Response("create_batch", 400, "Batch size too large", 0)
  ELSE IF Len(batch.user_id) > USER_ID_LENGTH
  THEN Response("create_batch", 400, "User ID length is incorrect", 0)
  ELSE None

\* lines 68-72: the error response, or None when both checks pass
CreateBatchValidate(batch) ==
  IF Len(batch.items) > MAX_BATCH_SIZE
  THEN Response("create_batch", 400, "Batch size too large", 0)
  ELSE IF Len(batch.user_id) # USER_ID_LENGTH
  THEN Response("create_batch", 400, "User ID length is incorrect", 0)
  ELSE None

\* line 93: HashedBatch(user_id_hash=..., timestamp=epoch_time, items=batch.items)
MakeHashedBatch(user_id_hash, now, items) ==
  [user_id_hash |-> user_id_hash, timestamp |-> EpochTime(now), items |-> items]

\* BatchData with the compression forgotten
BatchData_NotCompressed(hashed_batch) == Utf8Encode(HashedBatchJson(hashed_batch))

\* line 94: gzip.compress(hashed_batch.json().encode('utf8'))
BatchData(hashed_batch) == GzipCompress(Utf8Encode(HashedBatchJson(hashed_batch)))

\* AssignLastBatch that only fills an empty slot
AssignLastBatch_OnlyIfEmpty(current, hashed_batch) ==
  IF current = None THEN hashed_batch ELSE current

\* line 98: the value of last_batch after the assignment
AssignLastBatch(current, hashed_batch) == hashed_batch

(***************************************************************************)
(* Inputs.                                                                 *)
(***************************************************************************)
Item(i) ==
  [timestamp |-> 1000 + i, source |-> "s", url |-> "http://x", title |-> "t",
   extract |-> "e", links |-> <<"http://y">>]

MkBatch(c, idlen, n) ==
  [user_id |-> [ i \in 1..idlen |-> c ], items |-> [ i \in 1..n |-> Item(i) ]]

\* A client's batch, by the character its identifier repeats, the length of
\* the identifier and the number of items.
BatchOf(d) == MkBatch(d[1], d[2], d[3])

\* The batches clients post in Spec: two contributors with a batch each, and
\* batches to reject: identifiers a character short or a character long,
\* with no item and with as many as allowed, and batches of one item too
\* many with every kind of identifier.
SampleBatches ==
  { <<"a", USER_ID_LENGTH, 1>>, <<"b", USER_ID_LENGTH, 2>> } \cup
  { <<"a", l, n>> :
      l \in {USER_ID_LENGTH - 1, USER_ID_LENGTH + 1},
      n \in {0, MAX_BATCH_SIZE} } \cup
  { <<"a", l, MAX_BATCH_SIZE + 1>> :
      l \in (USER_ID_LENGTH - 1)..(USER_ID_LENGTH + 1) }

\* The batches clients post in the sequential specifications: one contributor
\* with two different batches, a second contributor, and a batch to reject.
SeqBatches ==
  { <<"a", USER_ID_LENGTH, 1>>, <<"a", USER_ID_LENGTH, 2>>,
    <<"b", USER_ID_LENGTH, 1>>, <<"b", USER_ID_LENGTH - 1, 1>> }

\* str(uuid4())[:8]: 8 hex digits, drawn at random
Uuid8s ==
  { <<"0", "3", "f", "a", "8", "5", "f", "6">>,
    <<"c", "9", "b", "f", "9", "e", "5", "7">> }

\* the one value drawn where the object keys play no part
OneUuid8 == { <<"0", "3", "f", "a", "8", "5", "f", "6">> }

PublicIdOf(c) == Sha3_256Hex([ i \in 1..USER_ID_LENGTH |-> c ])

ShortPublicId == [ i \in 1..(PUBLIC_USER_ID_LENGTH - 1) |-> "0" ]

\* Date strings of requests
Date1 == DateStr(Timeline[1])
DateNoBatches == <<"2", "0", "2", "3", "-", "0", "6", "-", "1", "5">>
DateShortFields == <<"2", "0", "2", "4", "-", "1", "-", "1">>
DateNoHyphens == <<"2", "0", "2", "4", "0", "1", "0", "1">>
DateTrailing == Date1 \o <<"x">>

SamplePublicIds == { PublicIdOf("a"), PublicIdOf("b"), ShortPublicId }

\* a batch identifier that names no object
NoSuchBatchId ==
  <<"0", "0", "0", "0", "0", "_", "_", "0", "0", "0", "0", "0", "0", "0", "0">>

(***************************************************************************)
(* State.                                                                  *)
(***************************************************************************)
VARIABLES
  clk,         \* the clock: datetime.now() is Timeline[clk]
  store,       \* the bucket: object key -> bytes
  last_batch,  \* the module global last_batch
  inflight,    \* the create_batch calls that passed the checks and have not returned
  resp,        \* the request and response of the step just taken, None if it returned nothing
  log,         \* history: the store writes that succeeded, in the order they completed
  done,        \* history: the HashedBatch of the create_batch call that returned ok last
  client       \* the batches clients post (see BatchOf)

vars == <<clk, store, last_batch, inflight, resp, log, done, client>>

Now == Timeline[clk]

InitWith(batches) ==
  /\ clk = 1
  /\ store = <<>>
  /\ last_batch = None
  /\ inflight = {}
  /\ resp = None
  /\ log = <<>>
  /\ done = None
  /\ client = batches

Tick ==
  /\ clk < Len(Timeline)
  /\ clk' = clk + 1
  /\ resp' = None
  /\ UNCHANGED <<store, last_batch, inflight, log, done, client>>

\* the store writes made or still to be made by the calls accepted so far
Submitted == Len(log) + Cardinality({ r \in inflight : r.pc = "upload" })

\* the worker thread that takes the next call
FreeWorker(limit) == CHOOSE w \in 1..limit :
  /\ \A r \in inflight : r.worker # w
  /\ \A v \in 1..(w - 1) : \E r \in inflight : r.worker = v

\* lines 68-93: a rejected batch is answered at once; an accepted one has its
\* hash, time, key and HashedBatch computed and goes on to the store write.
CreateBatchBegin(batch, uid, limit) ==
  LET err == CreateBatchValidate(batch) IN
  IF err # None
  THEN /\ resp' = [req |-> batch, rsp |-> err]
       /\ UNCHANGED <<clk, store, last_batch, inflight, log, done, client>>
  ELSE LET user_id_hash == Sha3_256Hex(batch.user_id)
           now          == Now
           filename     == FileName(now, user_id_hash, uid)
           hashed_batch == MakeHashedBatch(user_id_hash, now, batch.items)
       IN  /\ Submitted < MaxSubmits
           /\ Cardinality(inflight) < limit
           /\ inflight' = inflight \cup
                { [worker |-> FreeWorker(limit), batch |-> batch, now |-> now,
                   filename |-> filename, hashed_batch |-> hashed_batch,
                   pc |-> "upload"] }
           /\ resp' = None
           /\ UNCHANGED <<clk, store, last_batch, log, done, client>>

\* lines 94-95: upload(data, filename) returns
CreateBatchUploadOk(r) ==
  /\ r.pc = "upload"
  /\ store' = BucketPut(store, r.filename, BatchData(r.hashed_batch))
  /\ inflight' = (inflight \ {r}) \cup {[r EXCEPT !.pc = "assign"]}
  /\ log' = Append(log, [batch |-> r.batch, now |-> r.now,
                         filename |-> r.filename, hashed_batch |-> r.hashed_batch])
  /\ resp' = None
  /\ UNCHANGED <<clk, last_batch, done, client>>

\* CreateBatchUploadFail with the slot assigned before the store write
CreateBatchUploadFail_SlotSetFirst(r) ==
  /\ r.pc = "upload"
  /\ inflight' = inflight \ {r}
  /\ last_batch' = r.hashed_batch
  /\ resp' = [req |-> r.batch, rsp |-> Response("create_batch", 500, "StorageError", 1)]
  /\ UNCHANGED <<clk, store, log, done, client>>

\* line 95: bucket.put raises; nothing catches it, the call ends with a 500
CreateBatchUploadFail(r) ==
  /\ r.pc = "upload"
  /\ inflight' = inflight \ {r}
  /\ resp' = [req |-> r.batch, rsp |-> Response("create_batch", 500, "StorageError", 1)]
  /\ UNCHANGED <<clk, store, last_batch, log, done, client>>

\* lines 97-103: the slot is assigned and the call returns
CreateBatchSetLast(r) ==
  /\ r.pc = "assign"
  /\ last_batch' = AssignLastBatch(last_batch, r.hashed_batch)
  /\ inflight' = inflight \ {r}
  /\ done' = r.hashed_batch
  /\ resp' = [req |-> r.batch,
              rsp |-> Response("create_batch", 200,
                        [status |-> "ok",
                         public_user_id |-> r.hashed_batch.user_id_hash], 1)]
  /\ UNCHANGED <<clk, store, log, client>>

Answer(req, rsp) ==
  /\ resp' = [req |-> req, rsp |-> rsp]
  /\ UNCHANGED <<clk, store, last_batch, inflight, log, done, client>>

GetBatchesForDateAndUserReq(date_str, public_user_id) ==
  Answer([date_str |-> date_str, public_user_id |-> public_user_id],
         GetBatchesForDateAndUser(store, date_str, public_user_id))

GetBatchFromIdReq(date_str, public_user_id, batch_id) ==
  Answer([date_str |-> date_str, public_user_id |-> public_user_id,
          batch_id |-> batch_id],
         GetBatchFromId(store, date_str, public_user_id, batch_id))

GetUserIdHashesForDateReq(date_str) ==
  Answer([date_str |-> date_str], GetUserIdHashesForDate(store, date_str))

GetLatestBatchReq == Answer(None, GetLatestBatch(last_batch))

\* GET /
StatusReq == Answer(None, Response("status", 200, [status |-> "ok"], 0))

\* The requests clients make of the query handlers.
ListRequests ==
  { <<d, PublicIdOf("a")>> :
      d \in {Date1, DateNoBatches, DateShortFields, DateTrailing} } \cup
  { <<Date1, p>> : p \in SamplePublicIds }

UsersRequests == {Date1, DateNoBatches, DateNoHyphens, DateTrailing}

FetchRequests ==
  { <<DateStr(log[i].now), log[i].hashed_batch.user_id_hash,
      GetBatchIdFromFileName(KeyFileName(log[i].filename))>> : i \in DOMAIN log } \cup
  { <<d, PublicIdOf("a"), NoSuchBatchId>> :
      d \in {Date1, DateShortFields, DateNoHyphens, DateTrailing} } \cup
  { <<Date1, ShortPublicId, NoSuchBatchId>> }

CreateBatch(limit, uids) ==
  \/ \E d \in client, uid \in uids : CreateBatchBegin(BatchOf(d), uid, limit)
  \/ \E r \in inflight : CreateBatchUploadOk(r)
  \/ \E r \in inflight : CreateBatchUploadFail(r)
  \/ \E r \in inflight : CreateBatchSetLast(r)

\* Requests are served by a pool of threads: create_batch calls overlap.
Next ==
  \/ Tick
  \/ CreateBatch(MaxInFlight, OneUuid8)
  \/ GetLatestBatchReq
  \/ StatusReq

Init == InitWith(SampleBatches)

Spec == Init /\ [][Next]_vars

\* Clients that post one batch at a time and ask for the latest batch.
SeqNext ==
  \/ Tick
  \/ CreateBatch(1, Uuid8s)
  \/ GetLatestBatchReq

SeqInit == InitWith(SeqBatches)

SeqSpec == SeqInit /\ [][SeqNext]_vars

\* Clients that post one batch at a time and list the store.
ListNext ==
  \/ Tick
  \/ CreateBatch(1, Uuid8s)
  \/ \E q \in ListRequests : GetBatchesForDateAndUserReq(q[1], q[2])
  \/ \E d \in UsersRequests : GetUserIdHashesForDateReq(d)

ListSpec == SeqInit /\ [][ListNext]_vars

\* Clients that post one batch at a time and fetch stored batches.
FetchNext ==
  \/ Tick
  \/ CreateBatch(1, Uuid8s)
  \/ \E q \in FetchRequests : GetBatchFromIdReq(q[1], q[2], q[3])

FetchSpec == SeqInit /\ [][FetchNext]_vars

(***************************************************************************)
(* Properties.                                                             *)
(***************************************************************************)
\* the step just taken answered a request of handler op
IsResp(op) == resp # None /\ resp.rsp.op = op

LastStored == IF log = <<>> THEN None ELSE log[Len(log)].hashed_batch

WasStored(hb) == \E i \in DOMAIN log : log[i].hashed_batch = hb

\* the store as the successful writes of the log leave it
RECURSIVE Replay(_, _)
Replay(st, l) ==
  IF l = <<>> THEN st
  ELSE Replay([ k \in DOMAIN st \cup {Head(l).filename} |->
                  IF k = Head(l).filename
                  THEN [gzip |-> [utf8 |-> HashedBatchJson(Head(l).hashed_batch)]]
                  ELSE st[k] ], Tail(l))

\* YYYY-MM-DD and nothing else
IsIsoDate(s) ==
  /\ Len(s) = 10
  /\ \A i \in {1, 2, 3, 4, 6, 7, 9, 10} : s[i] \in Range(Digits)
  /\ s[5] = "-" /\ s[8] = "-"

\* 1/v1/{date}/1/{public id}/
KeyPrefix(date, public_id) ==
  <<"1", "/", "v", "1", "/">> \o date \o <<"/", "1", "/">> \o public_id \o <<"/">>

\* what follows the last / of a key, without the 8 characters of .json.gz
KeyBatchId(key) == SubSeq(key, LastIndexOf(key, "/") + 1, Len(key) - 8)

RECURSIVE DigitsValue(_)
DigitsValue(ds) ==
  IF ds = <<>> THEN 0
  ELSE 10 * DigitsValue(SubSeq(ds, 1, Len(ds) - 1))
         + ((CHOOSE i \in DOMAIN Digits : Digits[i] = ds[Len(ds)]) - 1)

\* 5 digits, two underscores, 8 hex characters
HasBatchIdForm(id) ==
  /\ Len(id) = 15
  /\ \A i \in 1..5 : id[i] \in Range(Digits)
  /\ id[6] = "_" /\ id[7] = "_"
  /\ \A i \in 8..15 : id[i] \in Range(HexDigits)

\* the log entries of one date and one public identifier
EntriesOf(date, public_id) ==
  { i \in DOMAIN log :
      /\ DateStr(log[i].now) = date
      /\ log[i].hashed_batch.user_id_hash = public_id }

(***************************************************************************)
(* C1.  A batch of more than MAX_BATCH_SIZE items is answered 400 without  *)
(* a request to the blob store, and the step leaves the store and          *)
(* last_batch as they were, whatever the length of the identifier.         *)
(***************************************************************************)
C1_OversizeRejectedNoEffect ==
  [][ (/\ resp' # None
       /\ resp'.rsp.op = "create_batch"
       /\ Len(resp'.req.items) > MAX_BATCH_SIZE)
      => (/\ resp'.rsp.status = 400
          /\ resp'.rsp.calls = 0
          /\ store' = store
          /\ last_batch' = last_batch
          /\ inflight' = inflight) ]_vars

\* an oversize batch with a well-formed identifier is rejected while the store
\* and the slot hold a batch
C1_Witness ==
  /\ IsResp("create_batch")
  /\ Len(resp.req.items) > MAX_BATCH_SIZE
  /\ Len(resp.req.user_id) = USER_ID_LENGTH
  /\ resp.rsp.status = 400
  /\ store # <<>>
  /\ last_batch # None

(***************************************************************************)
(* C2.  The store write comes before the slot update: a call that reached  *)
(* the update has its write in the log, last_batch only ever holds a       *)
(* HashedBatch whose write succeeded, the store is what the successful     *)
(* writes made it, and a failed write is answered 500 after one attempt    *)
(* with last_batch and the store left as they were.                        *)
(***************************************************************************)
C2_WriteBeforeUpdate ==
  /\ [](/\ (last_batch # None => WasStored(last_batch))
        /\ \A r \in inflight : r.pc = "assign" => WasStored(r.hashed_batch)
        /\ store = Replay(<<>>, log))
  /\ [][ (/\ resp' # None
          /\ resp'.rsp.op = "create_batch"
          /\ resp'.rsp.status = 500)
         => (/\ resp'.rsp.calls = 1
             /\ last_batch' = last_batch
             /\ store' = store
             /\ log' = log
             /\ \E r \in inflight : r.pc = "upload" /\ inflight' = inflight \ {r}) ]_vars

\* a store write fails after an earlier batch was stored and assigned
C2_Witness ==
  /\ IsResp("create_batch")
  /\ resp.rsp.status = 500
  /\ last_batch # None
  /\ WasStored(last_batch)

(***************************************************************************)
(* C3, as claimed: whenever no call is between its store write and its     *)
(* slot update, last_batch is the HashedBatch of the write that completed  *)
(* last (None if there was none).                                          *)
(***************************************************************************)
C3_SlotIsLastStored ==
  (\A r \in inflight : r.pc # "assign") => last_batch = LastStored

(***************************************************************************)
(* C3, amended: last_batch is None until a create_batch call returns ok,   *)
(* and then it is the HashedBatch of the call that returned ok last, whose *)
(* store write succeeded.                                                  *)
(***************************************************************************)
C3_SlotIsLastAssigned ==
  /\ last_batch = done
  /\ done # None => WasStored(done)
  /\ (log = <<>> => last_batch = None)

\* two overlapping calls: the slot holds a stored batch that is not the one
\* stored last
C3_Witness ==
  /\ inflight = {}
  /\ last_batch # None
  /\ WasStored(last_batch)
  /\ last_batch # LastStored

(***************************************************************************)
(* C4.  With batches posted one at a time, get_latest_batch answers the    *)
(* empty list while no call has returned ok, and after N calls returned ok *)
(* a list of exactly the HashedBatch the Nth built: the digest of its      *)
(* identifier, its ingestion time and its items.  Rejected and failed      *)
(* calls leave the answer as it was.                                       *)
(***************************************************************************)
C4_LatestIsNth ==
  IsResp("get_latest_batch") =>
    LET n == Len(log) - Cardinality({ r \in inflight : r.pc = "assign" })
    IN  /\ resp.rsp.status = 200
        /\ n = 0 => resp.rsp.body = <<>>
        /\ n > 0 =>
             /\ Len(resp.rsp.body) = 1
             /\ resp.rsp.body[1].user_id_hash = Sha3_256Hex(log[n].batch.user_id)
             /\ resp.rsp.body[1].timestamp = EpochTime(log[n].now)
             /\ resp.rsp.body[1].items = log[n].batch.items

\* the answer after two calls that built different batches
C4_Witness ==
  /\ IsResp("get_latest_batch")
  /\ Len(log) = 2
  /\ inflight = {}
  /\ log[1].hashed_batch # log[2].hashed_batch
  /\ resp.rsp.body = <<log[2].hashed_batch>>

(***************************************************************************)
(* C5.  A batch whose identifier is not USER_ID_LENGTH characters long is  *)
(* answered 400, with no request to the blob store, for every item count.  *)
(***************************************************************************)
C5_BadIdentifierRejected ==
  (IsResp("create_batch") /\ Len(resp.req.user_id) # USER_ID_LENGTH)
    => (resp.rsp.status = 400 /\ resp.rsp.calls = 0)

\* a batch of the largest allowed size with a short identifier is rejected
C5_Witness ==
  /\ IsResp("create_batch")
  /\ Len(resp.req.user_id) < USER_ID_LENGTH
  /\ Len(resp.req.items) = MAX_BATCH_SIZE
  /\ resp.rsp.status = 400
  /\ resp.rsp.body = "User ID length is incorrect"

(***************************************************************************)
(* C6, as claimed: the three handlers that take a date answer 400, with no *)
(* request to the blob store, for every date string that is not YYYY-MM-DD *)
(* and nothing else.                                                       *)
(***************************************************************************)
C6_MalformedDateRejected ==
  (/\ resp # None
   /\ resp.rsp.op \in {"get_batches_for_date_and_user", "get_batch_from_id",
                       "get_user_id_hashes_for_date"}
   /\ ~IsIsoDate(resp.req.date_str))
    => (resp.rsp.status = 400 /\ resp.rsp.calls = 0)

\* The request asks for the object that the i-th successful write stored.
C7_Matches(i) ==
  /\ resp.req.date_str = DateStr(log[i].now)
  /\ resp.req.public_user_id = log[i].hashed_batch.user_id_hash
  /\ resp.req.batch_id = KeyBatchId(log[i].filename)

(***************************************************************************)
(* C7, as claimed: get_batch_from_id with the date, public identifier and  *)
(* batch identifier of any successful write answers the items posted.      *)
(***************************************************************************)
C7_RoundTripAlways ==
  IsResp("get_batch_from_id") =>
    \A i \in DOMAIN log :
      C7_Matches(i) =>
        /\ resp.rsp.status = 200
        /\ resp.rsp.body["items"] = log[i].batch.items

(***************************************************************************)
(* C7, amended: the same, for a write that no later write replaced (same   *)
(* contributor, date, second and random suffix give the same key).         *)
(***************************************************************************)
C7_RoundTripUnlessOverwritten ==
  IsResp("get_batch_from_id") =>
    \A i \in DOMAIN log :
      (C7_Matches(i) /\ \A j \in (i + 1)..Len(log) : log[j].filename # log[i].filename)
        => /\ resp.rsp.status = 200
           /\ resp.rsp.body["items"] = log[i].batch.items
           /\ resp.rsp.body["user_id_hash"] = resp.req.public_user_id

\* the first of two stored batches is fetched after the second was stored
C7_Witness ==
  /\ IsResp("get_batch_from_id")
  /\ Len(log) = 2
  /\ log[1].filename # log[2].filename
  /\ C7_Matches(1)
  /\ resp.rsp.status = 200
  /\ resp.rsp.body["items"] = log[1].batch.items
  /\ log[1].batch.items # <<>>
  /\ log[1].batch.items # log[2].batch.items

(***************************************************************************)
(* C8, as claimed: a well-formed date with no stored batch gives the empty *)
(* list of users, and a well-formed date and public identifier with no     *)
(* stored batch give an empty batch_ids, never an error.                   *)
(***************************************************************************)
C8_EmptyListingsAreEmpty ==
  /\ (/\ IsResp("get_user_id_hashes_for_date")
      /\ IsIsoDate(resp.req.date_str)
      /\ \A i \in DOMAIN log : DateStr(log[i].now) # resp.req.date_str)
       => (resp.rsp.status = 200 /\ resp.rsp.body = <<>>)
  /\ (/\ IsResp("get_batches_for_date_and_user")
      /\ IsIsoDate(resp.req.date_str)
      /\ Len(resp.req.public_user_id) = PUBLIC_USER_ID_LENGTH
      /\ EntriesOf(resp.req.date_str, resp.req.public_user_id) = {})
       => (resp.rsp.status = 200 /\ resp.rsp.body.batch_ids = <<>>)

(***************************************************************************)
(* C9.  The batch identifiers listed for a date and a public identifier    *)
(* are in the order of their file names; each starts with exactly 5 digits *)
(* of value at most 86399, the seconds since midnight of its ingestion; so *)
(* a batch ingested in an earlier second comes before one ingested in a    *)
(* later second.                                                           *)
(***************************************************************************)
C9_SortedChronological ==
  (IsResp("get_batches_for_date_and_user") /\ resp.rsp.status = 200) =>
    LET ids  == resp.rsp.body.batch_ids
        sec(k) == DigitsValue(SubSeq(ids[k], 1, 5))
        mine == EntriesOf(resp.req.date_str, resp.req.public_user_id)
    IN  /\ \A k \in DOMAIN ids :
             /\ Len(ids[k]) > 5
             /\ \A i \in 1..5 : ids[k][i] \in Range(Digits)
             /\ ids[k][6] = "_"
             /\ sec(k) <= 86399
        /\ \A k \in DOMAIN ids : \A l \in DOMAIN ids :
             k < l => /\ ~StrLess(ids[l] \o FILE_NAME_SUFFIX, ids[k] \o FILE_NAME_SUFFIX)
                      /\ sec(k) <= sec(l)
        /\ { sec(k) : k \in DOMAIN ids }
             = { log[i].now.hour * 3600 + log[i].now.minute * 60 + log[i].now.second :
                   i \in mine }

\* two batches of one contributor and date, ingested in different seconds
C9_Witness ==
  /\ IsResp("get_batches_for_date_and_user")
  /\ resp.rsp.status = 200
  /\ Len(resp.rsp.body.batch_ids) = 2
  /\ DigitsValue(SubSeq(resp.rsp.body.batch_ids[1], 1, 5)) = 9
  /\ DigitsValue(SubSeq(resp.rsp.body.batch_ids[2], 1, 5)) = 86399

(***************************************************************************)
(* C10.  Every object create_batch wrote is stored under                   *)
(* 1/v1/{ingestion date}/1/{public id}/, and the listing of a date and a   *)
(* public identifier holds, once each, the identifiers of the objects      *)
(* written for that date and that contributor and no other; each has the   *)
(* form of 5 digits, two underscores and 8 hex characters.  So the first   *)
(* batch of a contributor on a date is listed alone.                       *)
(***************************************************************************)
C10_ListedUnderOwnPrefixOnly ==
  /\ \A i \in DOMAIN log :
       /\ log[i].filename \in DOMAIN store
       /\ StartsWith(log[i].filename,
            KeyPrefix(DateStr(log[i].now), Sha3_256Hex(log[i].batch.user_id)))
  /\ (IsResp("get_batches_for_date_and_user") /\ resp.rsp.status = 200) =>
       LET ids  == resp.rsp.body.batch_ids
           mine == { log[i].filename :
                       i \in EntriesOf(resp.req.date_str, resp.req.public_user_id) }
       IN  /\ Range(ids) = { KeyBatchId(k) : k \in mine }
           /\ Len(ids) = Cardinality(mine)
           /\ \A k \in DOMAIN ids : HasBatchIdForm(ids[k])

\* the only batch of a contributor is listed alone while the store holds a
\* batch of another contributor
C10_Witness ==
  /\ IsResp("get_batches_for_date_and_user")
  /\ resp.rsp.status = 200
  /\ Len(resp.rsp.body.batch_ids) = 1
  /\ Len(log) = 2
  /\ log[1].hashed_batch.user_id_hash # log[2].hashed_batch.user_id_hash

====
